---- MODULE Spec2Model ----
(***************************************************************************)
(* Model of the Twenty CRM MCP server: the workspace configuration         *)
(* (config.py), the GraphQL transport client and the per-workspace client  *)
(* cache (graphql_client.py) and the tool wrappers (tools/*.py).           *)
(*                                                                         *)
(* Python values are tagged tuples <<tag, payload>>; the tag decides the   *)
(* payload's type.  A Python str that is used as a key or is concatenated  *)
(* is a sequence of tokens (<<"create", "Person">> is "createPerson").     *)
(* An Optional value is a sequence of length 0 (None) or 1.                *)
(***************************************************************************)
EXTENDS Integers, Sequences, FiniteSets, TLC

\* ------------------------------------------------------------------ bounds

\* concurrent tool invocations of the interleaved specification
NTasks == 2
\* longest `errors` array a response body carries
MaxErrors == 2
\* longest `filters` list given to search_records_complex
MaxFilters == 2
\* longest object name given letter by letter to _get_mutation_name
MaxNameLen == 3

\* ------------------------------------------------------- Python / JSON values

JNull == <<"null">>
JStr(s) == <<"str", s>>
JList(s) == <<"list", s>>
JMap(f) == <<"map", f>>
JInt(n) == <<"int", n>>
\* True and False, by their printed form
JBool(b) == <<"bool", b>>
\* str(e) of a value that is not a str: its printed form
PyRepr(v) == <<"repr", v>>
\* a response body that is no JSON document
RawText == <<"raw">>

EmptyDict == JMap(<<>>)
EmptyList == JList(<<>>)

Tag(v) == v[1]
IsMap(v) == Tag(v) = "map"
IsList(v) == Tag(v) = "list"
IsPyStr(v) == Tag(v) \in {"str", "repr"}

\* the outcome of evaluating a Python expression: a value or a raised exception
Ok(v) == [exc |-> "none", val |-> v]
Raise(c) == [exc |-> c, val |-> JNull]

\* v.get(key, default)
PyGet(v, key, default) ==
    IF ~IsMap(v) THEN Raise("AttributeError")
    ELSE IF key \in DOMAIN v[2] THEN Ok(v[2][key]) ELSE Ok(default)

\* key in v, for a str key: the exception it raises ("none" when it raises none)
PyInExc(v) ==
    IF Tag(v) \in {"map", "list"} THEN "none" ELSE "TypeError"

\* key in v, for a str key, where it raises nothing
PyIn(key, v) ==
    IF IsMap(v) THEN key \in DOMAIN v[2]
    ELSE \E i \in 1..Len(v[2]) : v[2][i] = JStr(key)

\* v[key] for a str key, on a value on which `key in v` was true
PyIndex(v, key) ==
    IF IsMap(v) THEN Ok(v[2][key]) ELSE Raise("TypeError")

\* the keys of a dict as a list of str
RECURSIVE KeyList(_)
KeyList(ks) ==
    IF ks = {} THEN <<>>
    ELSE LET k == CHOOSE x \in ks : TRUE IN <<JStr(k)>> \o KeyList(ks \ {k})

\* the items `for e in v` visits, where v can be iterated
PyIter(v) ==
    IF IsList(v) THEN Ok(v)
    ELSE IF IsMap(v) THEN Ok(JList(KeyList(DOMAIN v[2])))
    ELSE Raise("TypeError")

\* bool(v)
PyTruthy(v) ==
    CASE Tag(v) = "null" -> FALSE
      [] Tag(v) = "list" -> Len(v[2]) > 0
      [] Tag(v) = "map" -> DOMAIN v[2] # {}
      [] Tag(v) = "str" -> v[2] # <<>>
      [] Tag(v) = "int" -> v[2] # 0
      [] Tag(v) = "bool" -> v[2] = "True"
      [] OTHER -> TRUE

\* ---------------------------------------------------------- exception classes

\* the direct base class of each exception class the client can meet
BaseClass ==
    [c \in {"ConnectTimeout", "ReadTimeout", "TimeoutException", "ConnectError",
            "ReadError", "NetworkError", "TransportError", "RequestError",
            "HTTPStatusError", "HTTPError", "InvalidURL", "TwentyAPIError",
            "JSONDecodeError", "ValueError", "TypeError", "AttributeError",
            "KeyError", "IndexError", "LookupError", "Exception"} |->
        CASE c \in {"ConnectTimeout", "ReadTimeout"} -> "TimeoutException"
          [] c \in {"ConnectError", "ReadError"} -> "NetworkError"
          [] c \in {"TimeoutException", "NetworkError"} -> "TransportError"
          [] c = "TransportError" -> "RequestError"
          [] c \in {"RequestError", "HTTPStatusError"} -> "HTTPError"
          [] c = "JSONDecodeError" -> "ValueError"
          [] c \in {"KeyError", "IndexError"} -> "LookupError"
          [] c = "Exception" -> "BaseException"
          [] OTHER -> "Exception"]

RECURSIVE IsInstance(_, _)
IsInstance(c, cls) ==
    IF c = cls THEN TRUE
    ELSE IF c \in DOMAIN BaseClass THEN IsInstance(BaseClass[c], cls)
    ELSE FALSE

\* the first `except` clause of a try statement that catches c, 0 when none does
RECURSIVE FirstHandler(_, _, _)
FirstHandler(c, clauses, i) ==
    IF i > Len(clauses) THEN 0
    ELSE IF IsInstance(c, clauses[i]) THEN i
    ELSE FirstHandler(c, clauses, i + 1)

\* ------------------------------------------------------------ config.py

\* s.rstrip(ch)
RECURSIVE rstrip(_, _)
rstrip(s, ch) ==
    IF s # <<>> /\ s[Len(s)] = ch THEN rstrip(SubSeq(s, 1, Len(s) - 1), ch) ELSE s

Workspace(name, base_url, api_key) ==
    [name |-> name, base_url |-> base_url, api_key |-> api_key]

is_valid(w) == w.name # <<>> /\ w.base_url # <<>> /\ w.api_key # <<>>

\* a dict: its keys in insertion order and its values
NewDict == [keys |-> <<>>, val |-> <<>>]
DictSet(d, k, v) ==
    [keys |-> IF k \in DOMAIN d.val THEN d.keys ELSE Append(d.keys, k),
     val |-> (k :> v) @@ d.val]

\* the str a JSON document gives for a field; a null or missing value is falsy
StrOf(v) == IF Tag(v) = "str" THEN v[2] ELSE <<>>

\* the loop of _load_multiple_workspaces over entries i..Len(entries)
RECURSIVE LoadEntries(_, _, _)
LoadEntries(entries, i, d) ==
    IF i > Len(entries) THEN [exc |-> "none", workspaces |-> d]
    ELSE LET ws_data == entries[i] IN
        IF ~IsMap(ws_data) THEN LoadEntries(entries, i + 1, d)
        ELSE LET name == PyGet(ws_data, <<"name">>, JStr(<<"default">>)).val
                 url == PyGet(ws_data, <<"base_url">>, JStr(<<>>)).val
                 key == PyGet(ws_data, <<"api_key">>, JStr(<<>>)).val
             IN IF Tag(url) # "str" THEN [exc |-> "AttributeError", workspaces |-> d]
                ELSE LET workspace ==
                             Workspace(StrOf(name), rstrip(url[2], "/"), StrOf(key))
                     IN LoadEntries(entries, i + 1,
                            IF is_valid(workspace)
                            THEN DictSet(d, workspace.name, workspace) ELSE d)

NewConfig(env) ==
    [workspaces |-> NewDict, default_workspace |-> <<>>, exc |-> "none",
     TWENTY_TIMEOUT |-> env.TWENTY_TIMEOUT]

_load_multiple_workspaces(self, workspaces_json) ==
    IF workspaces_json = RawText THEN [self EXCEPT !.exc = "ValueError"]
    ELSE IF ~IsMap(workspaces_json) \/ <<"workspaces">> \notin DOMAIN workspaces_json[2]
    THEN [self EXCEPT !.exc = "ValueError"]
    ELSE LET it == PyIter(workspaces_json[2][<<"workspaces">>]) IN
        IF it.exc # "none" THEN [self EXCEPT !.exc = it.exc]
        ELSE LET r == LoadEntries(it.val[2], 1, self.workspaces) IN
            [self EXCEPT !.workspaces = r.workspaces,
                         !.exc = r.exc,
                         !.default_workspace =
                             IF r.exc = "none" /\ r.workspaces.keys # <<>>
                             THEN <<r.workspaces.keys[1]>> ELSE <<>>]

_load_single_workspace(self, base_url, api_key) ==
    LET workspace == Workspace(<<"default">>, rstrip(base_url, "/"), api_key) IN
    [self EXCEPT !.workspaces = DictSet(self.workspaces, <<"default">>, workspace),
                 !.default_workspace = <<<<"default">>>>]

\* Config(): an unset variable is <<>>, as is an empty one (both are falsy)
_load_config(env) ==
    IF env.TWENTY_WORKSPACES # <<>>
    THEN _load_multiple_workspaces(NewConfig(env), env.TWENTY_WORKSPACES[1])
    ELSE IF env.TWENTY_BASE_URL # <<>> /\ env.TWENTY_API_KEY # <<>>
    THEN _load_single_workspace(NewConfig(env), env.TWENTY_BASE_URL, env.TWENTY_API_KEY)
    ELSE [NewConfig(env) EXCEPT !.exc = "ValueError"]

\* Config.timeout: int(os.getenv("TWENTY_TIMEOUT", "30"))
DefaultTimeout == 30
timeout(self) ==
    IF self.TWENTY_TIMEOUT = <<>> THEN Ok(<<"int", DefaultTimeout>>)
    ELSE IF Tag(self.TWENTY_TIMEOUT[1]) = "int" THEN Ok(self.TWENTY_TIMEOUT[1])
    ELSE Raise("ValueError")

\* the parts in order with sep between each two
RECURSIVE Interleave(_, _)
Interleave(parts, sep) ==
    IF Len(parts) <= 1 THEN parts
    ELSE <<parts[1], sep>> \o Interleave(Tail(parts), sep)

\* f"Workspace '{name}' not found. Available: {available}", name an Optional str
NotFound(self, name) ==
    <<"Workspace '", IF name = <<>> THEN <<"None">> ELSE name[1],
      "' not found. Available: ", Interleave(self.workspaces.keys, <<", ">>)>>

\* a get_workspace that falls back to the default workspace for an unknown name
get_workspace_or_default(self, name) ==
    LET n == IF name = <<>> \/ name[1] \notin DOMAIN self.workspaces.val
             THEN self.default_workspace ELSE name IN
    IF n = <<>> \/ n[1] \notin DOMAIN self.workspaces.val
    THEN [exc |-> "ValueError", message |-> NotFound(self, n),
          workspace |-> Workspace(<<>>, <<>>, <<>>)]
    ELSE [exc |-> "none", message |-> <<"none">>, workspace |-> self.workspaces.val[n[1]]]

\* Config.get_workspace(name), name an Optional str
get_workspace(self, name) ==
    LET n == IF name = <<>> THEN self.default_workspace ELSE name IN
    IF n = <<>> \/ n[1] \notin DOMAIN self.workspaces.val
    THEN [exc |-> "ValueError", message |-> NotFound(self, n),
          workspace |-> Workspace(<<>>, <<>>, <<>>)]
    ELSE [exc |-> "none", message |-> <<"none">>, workspace |-> self.workspaces.val[n[1]]]

\* ------------------------------------------------------ graphql_client.py

\* TwentyGraphQLClient(workspace, timeout); id tells one instance from another
NewClient(id, workspace, tmo) ==
    [id |-> id, workspace |-> workspace, timeout |-> tmo,
     base_url |-> rstrip(workspace.base_url, "/"),
     api_key |-> workspace.api_key,
     graphql_endpoint |-> rstrip(workspace.base_url, "/") \o <<"/graphql">>]

\* headers whose Authorization is the key alone
get_headers_key_only(self) ==
    [Authorization |-> self.api_key, ContentType |-> <<"application/json">>]

get_headers(self) ==
    [Authorization |-> <<"Bearer ">> \o self.api_key,
     ContentType |-> <<"application/json">>]

\* the exception an execute_query call ends with, as its caller sees it
TwentyAPIError(message, status_code) ==
    [exc |-> "TwentyAPIError", message |-> message, status_code |-> status_code,
     val |-> JNull]
Escapes(c) ==
    [exc |-> c, message |-> <<"exception", c>>, status_code |-> <<>>, val |-> JNull]
Returns(v) ==
    [exc |-> "none", message |-> <<"none">>, status_code |-> <<>>, val |-> v]

\* raise_for_status that lets the statuses below 400 through
raise_for_status_from_400(status) ==
    IF status >= 400 THEN "HTTPStatusError" ELSE "none"

\* response.raise_for_status(): the exception it raises, "none" on a 2xx status
raise_for_status(status) ==
    IF status >= 200 /\ status <= 299 THEN "none" ELSE "HTTPStatusError"

\* str(e)
PyStr(e) == IF IsPyStr(e) THEN e ELSE PyRepr(e)

\* [e.get("message", str(e)) for e in items], from item i on
RECURSIVE ErrorMessages(_, _)
ErrorMessages(items, i) ==
    IF i > Len(items) THEN [exc |-> "none", val |-> <<>>]
    ELSE LET m == PyGet(items[i], <<"message">>, PyStr(items[i])) IN
        IF m.exc # "none" THEN [exc |-> m.exc, val |-> <<>>]
        ELSE LET rest == ErrorMessages(items, i + 1) IN
            IF rest.exc # "none" THEN rest
            ELSE [exc |-> "none", val |-> <<m.val>> \o rest.val]

\* '; '.join(parts): a TypeError when a part is no str
Join(parts) ==
    IF \E i \in 1..Len(parts) : ~IsPyStr(parts[i])
    THEN [exc |-> "TypeError", val |-> <<>>]
    ELSE [exc |-> "none", val |-> Interleave(parts, JStr(<<"; ">>))]

\* whether the `errors` of a parsed body make execute_query raise
HasErrors(result) == PyIn(<<"errors">>, result)

\* the body of the try statement once the response is parsed
CheckResult(result) ==
    IF PyInExc(result) # "none" THEN Escapes(PyInExc(result))
    ELSE IF HasErrors(result)
    THEN LET errs == PyIndex(result, <<"errors">>) IN
         IF errs.exc # "none" THEN Escapes(errs.exc)
         ELSE LET it == PyIter(errs.val) IN
         IF it.exc # "none" THEN Escapes(it.exc)
         ELSE LET error_messages == ErrorMessages(it.val[2], 1) IN
         IF error_messages.exc # "none" THEN Escapes(error_messages.exc)
         ELSE LET joined == Join(error_messages.val) IN
         IF joined.exc # "none" THEN Escapes(joined.exc)
         ELSE TwentyAPIError(<<"GraphQL errors: ", joined.val>>, <<>>)
    ELSE LET data == PyGet(result, <<"data">>, EmptyDict) IN
         IF data.exc # "none" THEN Escapes(data.exc) ELSE Returns(data.val)

\* the except clauses with the general RequestError before TimeoutException
ExceptClausesGeneralFirst == <<"HTTPStatusError", "RequestError", "TimeoutException">>

\* the except clauses of execute_query, in the order written
ExceptClauses == <<"HTTPStatusError", "TimeoutException", "RequestError">>

\* what the except clause named `clause` raises for the HTTP outcome
Handle(clause, outcome) ==
    CASE clause = "HTTPStatusError" ->
            TwentyAPIError(<<"HTTP ", outcome.status, outcome.body>>, <<outcome.status>>)
      [] clause = "TimeoutException" -> TwentyAPIError(<<"Request timeout">>, <<>>)
      [] clause = "RequestError" ->
            TwentyAPIError(<<"Request failed: ", outcome.exc>>, <<>>)

\* what the try body ends with, before any except clause
TryBody(outcome) ==
    IF outcome.kind = "raise" THEN Escapes(outcome.exc)
    ELSE IF raise_for_status(outcome.status) # "none"
    THEN Escapes(raise_for_status(outcome.status))
    ELSE IF outcome.body = RawText THEN Escapes("JSONDecodeError")
    ELSE CheckResult(outcome.body)

\* execute_query, given what the HTTP layer did with the one POST
execute_query(outcome) ==
    LET r == TryBody(outcome)
        h == IF r.exc = "none" THEN 0 ELSE FirstHandler(r.exc, ExceptClauses, 1)
    IN IF h = 0 THEN r ELSE Handle(ExceptClauses[h], outcome)

execute_mutation(outcome) == execute_query(outcome)

\* _get_singular_name: the table maps each listed name to itself
_get_singular_name(object_name) == object_name

\* s.capitalize() on a str given letter by letter
UpperOf == ("a" :> "A") @@ ("d" :> "D") @@ ("l" :> "L") @@ ("s" :> "S")
LowerOf == ("A" :> "a") @@ ("D" :> "d") @@ ("L" :> "l") @@ ("S" :> "s")
capitalize(s) ==
    [i \in 1..Len(s) |->
        IF i = 1 THEN (IF s[i] \in DOMAIN UpperOf THEN UpperOf[s[i]] ELSE s[i])
        ELSE (IF s[i] \in DOMAIN LowerOf THEN LowerOf[s[i]] ELSE s[i])]

name_map ==
    (<<"people">> :> <<"Person">>) @@ (<<"companies">> :> <<"Company">>) @@
    (<<"opportunities">> :> <<"Opportunity">>) @@ (<<"notes">> :> <<"Note">>) @@
    (<<"tasks">> :> <<"Task">>)

_get_mutation_name(object_name) ==
    IF object_name \in DOMAIN name_map THEN name_map[object_name]
    ELSE capitalize(rstrip(object_name, "s"))

\* the methods of the client that run one operation
ClientOps ==
    {"get_record", "get_records", "create_record", "update_record", "delete_record",
     "search_records", "search_records_complex"}

\* the key under which a method reads its result from execute_query's mapping
ResultKeyObjectName(op, object_name) == object_name

ResultKey(op, object_name) ==
    CASE op = "get_record" -> _get_singular_name(object_name)
      [] op = "create_record" -> <<"create">> \o _get_mutation_name(object_name)
      [] op = "update_record" -> <<"update">> \o _get_mutation_name(object_name)
      [] op = "delete_record" -> <<"delete">> \o _get_mutation_name(object_name)
      [] OTHER -> object_name

\* edges[0]
FirstOf(edges) ==
    CASE Tag(edges) = "list" -> Ok(edges[2][1])
      [] Tag(edges) = "map" -> Raise("KeyError")
      [] Tag(edges) = "str" -> Ok(JStr(<<edges[2][1]>>))
      [] OTHER -> Raise("TypeError")

\* get_record taking edges[0] without looking whether there is one
ExtractUnchecked(op, key, result) ==
    IF op = "get_record"
    THEN LET found == PyGet(result, key, EmptyDict) IN
         IF found.exc # "none" THEN found
         ELSE LET edges == PyGet(found.val, <<"edges">>, EmptyList) IN
         IF edges.exc # "none" THEN edges
         ELSE IF edges.val = EmptyList THEN Raise("IndexError")
         ELSE LET first == FirstOf(edges.val) IN
              IF first.exc # "none" THEN first
              ELSE PyGet(first.val, <<"node">>, EmptyDict)
    ELSE PyGet(result, key, EmptyDict)

\* what a method does with the value execute_query returned
Extract(op, key, result) ==
    IF op = "get_record"
    THEN LET found == PyGet(result, key, EmptyDict) IN
         IF found.exc # "none" THEN found
         ELSE LET edges == PyGet(found.val, <<"edges">>, EmptyList) IN
         IF edges.exc # "none" THEN edges
         ELSE IF PyTruthy(edges.val)
         THEN LET first == FirstOf(edges.val) IN
              IF first.exc # "none" THEN first
              ELSE PyGet(first.val, <<"node">>, EmptyDict)
         ELSE Ok(EmptyDict)
    ELSE PyGet(result, key, EmptyDict)

\* what the method's await of execute_query or execute_mutation ends with
Execute(op, outcome) ==
    IF op \in {"create_record", "update_record", "delete_record"}
    THEN execute_mutation(outcome) ELSE execute_query(outcome)

\* a method of the client from its one await to its return or raise
FinishOp(op, key, outcome) ==
    LET r == Execute(op, outcome) IN
    IF r.exc # "none" THEN r
    ELSE LET x == Extract(op, key, r.val) IN
         IF x.exc # "none" THEN Escapes(x.exc) ELSE Returns(x.val)

\* search_records: no filter for an empty search text, else an ilike filter
SearchFilter(op, search_query) ==
    IF op = "search_records" /\ search_query # <<>> THEN <<<<"ilike", search_query>>>>
    ELSE <<>>

\* a POST that is sent again
post_again(n) == n + 2

\* await client.post(...): the POSTs issued so far, after this one
post(n) == n + 1

\* a cache keyed by the argument as given, None included
CacheKeyByArgument(workspace_name, workspace) ==
    IF workspace_name = <<>> THEN <<"None">> ELSE workspace_name[1]

\* TwentyClientManager.get_client: the cache key of a workspace
CacheKey(workspace_name, workspace) == workspace.name

\* a get_client that constructs a client on every call
AlwaysConstruct(clients, key) == TRUE

\* workspace.name not in self._clients
NotCached(clients, key) == key \notin DOMAIN clients

\* TwentyClientManager.get_client(workspace_name) on cache `clients`, when
\* `made` clients were constructed before
get_client(config, clients, made, workspace_name) ==
    LET w == get_workspace(config, workspace_name)
        key == CacheKey(workspace_name, w.workspace)
        tmo == timeout(config)
        miss == [exc |-> "none", message |-> <<"none">>, clients |-> clients,
                 key |-> <<>>, built |-> <<>>]
    IN IF w.exc # "none" THEN [miss EXCEPT !.exc = w.exc, !.message = w.message]
       ELSE IF NotCached(clients, key)
       THEN IF tmo.exc # "none"
            THEN [miss EXCEPT !.exc = tmo.exc, !.message = <<"exception", tmo.exc>>]
            ELSE [exc |-> "none", message |-> <<"none">>,
                  clients |-> (key :> NewClient(made + 1, w.workspace, tmo.val[2]))
                                  @@ clients,
                  key |-> <<key>>, built |-> <<key>>]
       ELSE [miss EXCEPT !.key = <<key>>]

\* --------------------------------------------- graphql_client.py: query text

\* A text is a sequence of tokens; a run of white space is one blank.

\* sep.join(items)
RECURSIVE JoinText(_, _)
JoinText(items, sep) ==
    IF items = <<>> THEN <<>>
    ELSE IF Len(items) = 1 THEN items[1]
    ELSE items[1] \o <<sep>> \o JoinText(Tail(items), sep)

\* repr(v), and str(v) of a value that is no str
RECURSIVE PyReprText(_)
PyReprText(v) ==
    CASE Tag(v) = "str" -> <<"'">> \o v[2] \o <<"'">>
      [] Tag(v) = "int" -> <<ToString(v[2])>>
      [] Tag(v) = "bool" -> <<v[2]>>
      [] Tag(v) = "null" -> <<"None">>
      [] Tag(v) = "list" ->
            <<"[">> \o JoinText([i \in 1..Len(v[2]) |-> PyReprText(v[2][i])], ", ") \o <<"]">>
      [] Tag(v) = "map" ->
            LET ks == KeyList(DOMAIN v[2]) IN
            <<"{">> \o JoinText([i \in 1..Len(ks) |->
                          PyReprText(ks[i]) \o <<": ">> \o PyReprText(v[2][ks[i][2]])], ", ")
                    \o <<"}">>

\* f"{v}"
PyFormat(v) == IF Tag(v) = "str" THEN v[2] ELSE PyReprText(v)

\* convert_value of _build_filter_string
RECURSIVE convert_value(_)
convert_value(v) ==
    CASE Tag(v) = "str" -> <<"\"">> \o v[2] \o <<"\"">>
      [] Tag(v) = "bool" -> <<IF v[2] = "True" THEN "true" ELSE "false">>
      [] Tag(v) = "int" -> <<ToString(v[2])>>
      [] Tag(v) = "map" ->
            LET ks == KeyList(DOMAIN v[2]) IN
            <<"{ ">> \o JoinText([i \in 1..Len(ks) |->
                           ks[i][2] \o <<": ">> \o convert_value(v[2][ks[i][2]])], ", ")
                     \o <<" }">>
      [] Tag(v) = "list" ->
            <<"[">> \o JoinText([i \in 1..Len(v[2]) |-> convert_value(v[2][i])], ", ") \o <<"]">>
      [] OTHER -> PyReprText(v)

_build_filter_string(self, filter_condition) ==
    IF ~PyTruthy(filter_condition) THEN <<>> ELSE convert_value(filter_condition)

\* the argument list with the filter clause appended before the cursor
ListArgsFilterFirst(self, limit, after, filter_condition, order_by, order_direction) ==
    <<<<"first: ">> \o PyFormat(limit)>>
    \o (IF PyTruthy(filter_condition)
        THEN <<<<"filter: ">> \o _build_filter_string(self, filter_condition)>> ELSE <<>>)
    \o (IF PyTruthy(after) THEN <<<<"after: \"">> \o PyFormat(after) \o <<"\"">>>> ELSE <<>>)
    \o (IF PyTruthy(order_by)
        THEN <<<<"orderBy: { ">> \o PyFormat(order_by) \o <<": ">>
                 \o PyFormat(order_direction) \o <<" }">>>>
        ELSE <<>>)

\* `args` of get_records and of get_records_with_fields
ListArgs(self, limit, after, filter_condition, order_by, order_direction) ==
    <<<<"first: ">> \o PyFormat(limit)>>
    \o (IF PyTruthy(after) THEN <<<<"after: \"">> \o PyFormat(after) \o <<"\"">>>> ELSE <<>>)
    \o (IF PyTruthy(filter_condition)
        THEN <<<<"filter: ">> \o _build_filter_string(self, filter_condition)>> ELSE <<>>)
    \o (IF PyTruthy(order_by)
        THEN <<<<"orderBy: { ">> \o PyFormat(order_by) \o <<": ">>
                 \o PyFormat(order_direction) \o <<" }">>>>
        ELSE <<>>)

\* the text after the argument clause: the selection and the page information
ListSelection(fields_str) ==
    <<") { edges { node { id __typename ">> \o fields_str
    \o <<"} cursor } pageInfo { hasNextPage hasPreviousPage startCursor endCursor } totalCount } }">>

\* a query that carries the name of the client's workspace as operation name
get_records_named(self, object_name, limit, after, filter_condition, order_by, order_direction) ==
    LET args == ListArgs(self, limit, after, filter_condition, order_by, order_direction)
        args_str == JoinText(args, ", ")
    IN <<"query ">> \o self.workspace.name \o <<" { ">> \o object_name \o <<"(">>
       \o args_str \o ListSelection(<<>>)

\* the query get_records hands to execute_query
get_records(self, object_name, limit, after, filter_condition, order_by, order_direction) ==
    LET args == ListArgs(self, limit, after, filter_condition, order_by, order_direction)
        args_str == JoinText(args, ", ")
    IN <<"query { ">> \o object_name \o <<"(">> \o args_str \o ListSelection(<<>>)

\* the query get_records_with_fields hands to execute_query
get_records_with_fields(self, object_name, fields, limit, after, filter_condition, order_by, order_direction) ==
    LET args == ListArgs(self, limit, after, filter_condition, order_by, order_direction)
        args_str == JoinText(args, ", ")
        fields_str == JoinText(fields, " ")
    IN <<"query { ">> \o object_name \o <<"(">> \o args_str
       \o ListSelection(fields_str \o <<" ">>)

\* json.dumps(v) of a value of strs, ints, bools, None, lists and mappings
RECURSIVE JsonDumps(_)
JsonDumps(v) ==
    CASE Tag(v) = "str" -> <<"\"">> \o v[2] \o <<"\"">>
      [] Tag(v) = "int" -> <<ToString(v[2])>>
      [] Tag(v) = "bool" -> <<IF v[2] = "True" THEN "true" ELSE "false">>
      [] Tag(v) = "null" -> <<"null">>
      [] Tag(v) = "list" ->
            <<"[">> \o JoinText([i \in 1..Len(v[2]) |-> JsonDumps(v[2][i])], ", ") \o <<"]">>
      [] Tag(v) = "map" ->
            LET ks == KeyList(DOMAIN v[2]) IN
            <<"{">> \o JoinText([i \in 1..Len(ks) |->
                          JsonDumps(ks[i]) \o <<": ">> \o JsonDumps(v[2][ks[i][2]])], ", ")
                    \o <<"}">>

\* the query get_record hands to execute_query
get_record(self, object_name, record_id) ==
    LET singular_name == _get_singular_name(object_name) IN
    <<"query { ">> \o singular_name \o <<"(", "filter: { id: { eq: ", "\"">> \o record_id
    \o <<"\"", " } }", ") { edges { node { id __typename } } } }">>

\* the mutation create_record hands to execute_mutation
create_record(self, object_name, data) ==
    LET mutation_name == _get_mutation_name(object_name)
        data_str == JsonDumps(data)
    IN <<"mutation { ", "create">> \o mutation_name \o <<"(", "data: ">> \o data_str
       \o <<") { id __typename } }">>

\* the mutation update_record hands to execute_mutation
update_record(self, object_name, record_id, data) ==
    LET mutation_name == _get_mutation_name(object_name)
        data_str == JsonDumps(data)
    IN <<"mutation { ", "update">> \o mutation_name \o <<"(", "id: ", "\"">> \o record_id
       \o <<"\"", ", ", "data: ">> \o data_str \o <<") { id __typename } }">>

\* the mutation delete_record hands to execute_mutation
delete_record(self, object_name, record_id) ==
    LET mutation_name == _get_mutation_name(object_name) IN
    <<"mutation { ", "delete">> \o mutation_name \o <<"(", "id: ", "\"">> \o record_id
    \o <<"\"", ") { id } }">>

\* a value used as the key of a dict literal: its text, a TypeError when it
\* cannot be hashed
DictKey(v) ==
    IF Tag(v) \in {"list", "map"} THEN [exc |-> "TypeError", val |-> <<>>]
    ELSE [exc |-> "none", val |-> PyFormat(v)]

\* an operator table that leaves `like` as it is
operator_map_like_kept ==
    [op \in {<<"eq">>, <<"neq">>, <<"like">>, <<"ilike">>, <<"gt">>, <<"gte">>, <<"lt">>,
             <<"lte">>, <<"in">>, <<"contains">>, <<"isNull">>, <<"isNotNull">>} |->
        CASE op \in {<<"ilike">>, <<"contains">>} -> <<"ilike">>
          [] op \in {<<"isNull">>, <<"isNotNull">>} -> <<"is">>
          [] OTHER -> op]

\* operator_map of search_records_complex
operator_map ==
    [op \in {<<"eq">>, <<"neq">>, <<"like">>, <<"ilike">>, <<"gt">>, <<"gte">>, <<"lt">>,
             <<"lte">>, <<"in">>, <<"contains">>, <<"isNull">>, <<"isNotNull">>} |->
        CASE op \in {<<"like">>, <<"ilike">>, <<"contains">>} -> <<"ilike">>
          [] op \in {<<"isNull">>, <<"isNotNull">>} -> <<"is">>
          [] OTHER -> op]

\* an operator lookup that falls back to eq for a keyword it does not list
GqlOperatorDefaultEq(operator) ==
    LET k == DictKey(operator) IN
    IF k.exc # "none" THEN k
    ELSE IF Tag(operator) = "str" /\ operator[2] \in DOMAIN operator_map
    THEN [exc |-> "none", val |-> operator_map[operator[2]]]
    ELSE [exc |-> "none", val |-> <<"eq">>]

\* operator_map.get(operator, operator)
GqlOperator(operator) ==
    LET k == DictKey(operator) IN
    IF k.exc # "none" THEN k
    ELSE IF Tag(operator) = "str" /\ operator[2] \in DOMAIN operator_map
    THEN [exc |-> "none", val |-> operator_map[operator[2]]]
    ELSE k

\* one sentinel for both null tests
SentinelAlwaysNull(operator) == JStr(<<"NULL">>)

\* the literal the branches "Handle special operators" write for a null test
Sentinel(operator) ==
    IF operator = JStr(<<"isNull">>) THEN JStr(<<"NULL">>) ELSE JStr(<<"NOT_NULL">>)

\* the dict literal {field: {keyword: value}}
FieldFilter(field, keyword, value) == JMap(field :> JMap(keyword :> value))

\* a loop that passes over a condition only when its field is None
SkippedWhenNone(field) == field = JNull

\* `if not field: continue`
Skipped(field) == ~PyTruthy(field)

\* the body of the loop of search_records_complex for one entry f of `filters`:
\* the conditions it appends (none or one), or the exception it raises
CompileCondition(f) ==
    LET field == PyGet(f, <<"field">>, JNull)
        operator == PyGet(f, <<"operator">>, JStr(<<"eq">>))
        value == PyGet(f, <<"value">>, JNull)
        skip == [exc |-> "none", val |-> <<>>]
    IN IF field.exc # "none" THEN [exc |-> field.exc, val |-> <<>>]
       ELSE IF Skipped(field.val) THEN skip
       ELSE LET gql_operator == GqlOperator(operator.val)
                key == DictKey(field.val)
            IN IF gql_operator.exc # "none" THEN [exc |-> gql_operator.exc, val |-> <<>>]
               ELSE IF key.exc # "none" THEN [exc |-> key.exc, val |-> <<>>]
               ELSE IF operator.val \in {JStr(<<"isNull">>), JStr(<<"isNotNull">>)}
               THEN [exc |-> "none",
                     val |-> <<FieldFilter(key.val, <<"is">>, Sentinel(operator.val))>>]
               ELSE IF operator.val \in {JStr(<<"like">>), JStr(<<"ilike">>), JStr(<<"contains">>)}
               THEN [exc |-> "none",
                     val |-> <<FieldFilter(key.val, gql_operator.val,
                                   JStr(<<"%">> \o PyFormat(value.val) \o <<"%">>))>>]
               ELSE [exc |-> "none",
                     val |-> <<FieldFilter(key.val, gql_operator.val, value.val)>>]

\* filter_conditions after the loop over filters[i..]
RECURSIVE FilterConditions(_, _)
FilterConditions(filters, i) ==
    IF i > Len(filters) THEN [exc |-> "none", val |-> <<>>]
    ELSE LET c == CompileCondition(filters[i]) IN
        IF c.exc # "none" THEN c
        ELSE LET rest == FilterConditions(filters, i + 1) IN
            IF rest.exc # "none" THEN rest
            ELSE [exc |-> "none", val |-> c.val \o rest.val]

\* a combination that wraps a single condition as well
CombineAlwaysAnd(filter_conditions) ==
    IF Len(filter_conditions) >= 1
    THEN JMap(<<"and">> :> JList(filter_conditions))
    ELSE JNull

\* "Combine filters with AND": filter_condition of search_records_complex
Combine(filter_conditions) ==
    IF Len(filter_conditions) = 1 THEN filter_conditions[1]
    ELSE IF Len(filter_conditions) > 1
    THEN JMap(<<"and">> :> JList(filter_conditions))
    ELSE JNull

\* search_records_complex up to its await: the filter it builds and the query
\* get_records hands to execute_query, or the exception the loop raises
search_records_complex(self, object_name, filters, limit, order_by, order_direction) ==
    LET it == PyIter(filters) IN
    IF it.exc # "none" THEN [exc |-> it.exc, filter_condition |-> JNull, query |-> <<>>]
    ELSE LET filter_conditions == FilterConditions(it.val[2], 1) IN
        IF filter_conditions.exc # "none"
        THEN [exc |-> filter_conditions.exc, filter_condition |-> JNull, query |-> <<>>]
        ELSE LET filter_condition == Combine(filter_conditions.val) IN
            [exc |-> "none", filter_condition |-> filter_condition,
             query |-> get_records(self, object_name, limit, JNull, filter_condition,
                                   order_by, order_direction)]

\* ------------------------------------------------------------ tools/*.py

Objects == {<<"people">>, <<"companies">>, <<"opportunities">>, <<"notes">>, <<"tasks">>}

\* the tools each tools module registers for its object
ToolOpsOf(object) ==
    {"get", "list", "create", "update", "delete"}
    \cup (IF object # <<"tasks">> THEN {"search_basic"} ELSE {})
    \cup (IF object \in {<<"people">>, <<"companies">>, <<"opportunities">>}
          THEN {"search_complex"} ELSE {})

Tools == UNION {{[object |-> o, op |-> p] : p \in ToolOpsOf(o)} : o \in Objects}

\* the client method a tool awaits
MethodOf(tool) ==
    CASE tool.op = "get" -> "get_record"
      [] tool.op = "list" -> "get_records"
      [] tool.op = "create" -> "create_record"
      [] tool.op = "update" -> "update_record"
      [] tool.op = "delete" -> "delete_record"
      [] tool.op = "search_basic" -> "search_records"
      [] tool.op = "search_complex" -> "search_records_complex"

\* whether the tool's call matches the method's parameters: get_companies,
\* get_opportunities and get_tasks pass offset=, which get_records does not take
Binds(tool) ==
    ~(tool.op = "list" /\ tool.object \in {<<"companies">>, <<"opportunities">>, <<"tasks">>})

\* a tool without its `except Exception` clause
ToolHandlersApiOnly == <<"TwentyAPIError">>

\* the except clauses of a tool, in the order written
ToolHandlers == <<"TwentyAPIError", "Exception">>

\* the mapping a tool returns for the way its try body ended
ToolReturn(tool, r) ==
    LET h == IF r.exc = "none" THEN 0 ELSE FirstHandler(r.exc, ToolHandlers, 1) IN
    IF r.exc = "none"
    THEN [kind |-> "success", error |-> <<"none">>,
          value |-> IF tool.op = "delete" THEN JNull ELSE r.val]
    ELSE IF h = 0 THEN [kind |-> "raised", error |-> <<"exception", r.exc>>, value |-> JNull]
    ELSE IF ToolHandlers[h] = "TwentyAPIError"
    THEN [kind |-> "error", error |-> <<"Failed to ", r.message>>, value |-> JNull]
    ELSE [kind |-> "error", error |-> <<"Unexpected error: ", r.message>>, value |-> JNull]

\* ------------------------------------------------------------------ inputs

SeqsUpTo(S, n) == UNION {[1..k -> S] : k \in 0..n}

\* one entry of the TWENTY_WORKSPACES document; an empty field is left out
Entry(name, base_url, api_key) ==
    JMap((IF name = <<>> THEN <<>> ELSE (<<"name">> :> JStr(name)))
         @@ (IF base_url = <<>> THEN <<>> ELSE (<<"base_url">> :> JStr(base_url)))
         @@ (IF api_key = <<>> THEN <<>> ELSE (<<"api_key">> :> JStr(api_key))))

Document(entries) == JMap(<<"workspaces">> :> JList(entries))

Env(doc, base_url, api_key, tmo) ==
    [TWENTY_WORKSPACES |-> doc, TWENTY_BASE_URL |-> base_url,
     TWENTY_API_KEY |-> api_key, TWENTY_TIMEOUT |-> tmo]

EntryA == Entry(<<"a">>, <<"h", "/">>, <<"k1">>)
EntryB == Entry(<<"b">>, <<"g">>, <<"k2">>)

\* the environments the server is started in
Envs ==
    { Env(<<>>, <<"h", "/">>, <<"k0">>, <<>>),
      Env(<<>>, <<"h">>, <<"k0">>, <<<<"bad">>>>),
      Env(<<Document(<<EntryA, EntryB>>)>>, <<>>, <<>>, <<<<"int", 60>>>>),
      Env(<<Document(<<Entry(<<"a">>, <<"h">>, <<>>), EntryB, EntryA>>)>>, <<>>, <<>>, <<>>),
      Env(<<Document(<<Entry(<<"a">>, <<>>, <<"k1">>), JNull>>)>>, <<"h">>, <<"k0">>, <<>>),
      Env(<<RawText>>, <<"h">>, <<"k0">>, <<>>),
      Env(<<>>, <<"/">>, <<"k0">>, <<>>),
      Env(<<Document(<<EntryA, EntryB, Entry(<<"a">>, <<"g">>, <<"k9">>)>>)>>, <<>>, <<>>, <<>>),
      Env(<<>>, <<>>, <<"k0">>, <<>>) }

\* the configurations with which initialize_server succeeds
Configs == {c \in {_load_config(e) : e \in Envs} : c.exc = "none"}

\* the workspace argument of a tool: None or a name
WorkspaceArgs == {<<>>, <<<<"a">>>>, <<<<"b">>>>, <<<<"default">>>>, <<<<"zz">>>>}

\* the search text of a basic search
Queries == {<<>>, <<"acme">>}

\* the entries of an `errors` array
ErrEntries ==
    { JMap(<<"message">> :> JStr(<<"m1">>)),
      JMap(<<"code">> :> JStr(<<"E7">>)),
      JMap(<<"message">> :> JNull),
      JStr(<<"boom">>) }

ErrorsValues == {JNull} \cup {JList(s) : s \in SeqsUpTo(ErrEntries, MaxErrors)}

Node(id) == JMap(<<"id">> :> JStr(<<id>>))
Edge(id) == JMap(<<"node">> :> Node(id))

\* what a response holds under the key of the operation
ResultSets ==
    { JNull, EmptyDict, JMap(<<"edges">> :> EmptyList),
      JMap(<<"edges">> :> JList(<<Edge("r1")>>)),
      JMap(<<"edges">> :> JList(<<Edge("r1"), Edge("r2")>>)),
      JMap(<<"edges">> :> JList(<<JMap(<<"cursor">> :> JStr(<<"c1">>))>>)),
      Node("r1") }

DataValues(key) == {JNull, EmptyDict} \cup {JMap(key :> rs) : rs \in ResultSets}

\* a JSON object with an optional `errors` and an optional `data`
Body(errors, data) ==
    JMap((IF errors = <<>> THEN <<>> ELSE (<<"errors">> :> errors[1]))
         @@ (IF data = <<>> THEN <<>> ELSE (<<"data">> :> data[1])))

\* every `data` without `errors`, and every `errors` with and without `data`
Bodies(key) ==
    {Body(<<>>, d) : d \in {<<>>} \cup {<<x>> : x \in DataValues(key)}}
    \cup {Body(<<e>>, d) : e \in ErrorsValues,
                           d \in {<<>>, <<JNull>>, <<JMap(key :> JMap(<<"edges">> :> JList(<<Edge("r1")>>)))>>}}
    \cup {RawText, JNull, EmptyList}

\* the bodies that come with the statuses other than 200
FewBodies(key) ==
    { RawText, Body(<<>>, <<JMap(key :> Node("r1"))>>),
      Body(<<JList(<<JMap(<<"message">> :> JStr(<<"m1">>))>>)>>, <<EmptyDict>>) }

Response(status, body) == [kind |-> "response", status |-> status, body |-> body, exc |-> "none"]
Raised(c) == [kind |-> "raise", status |-> 0, body |-> JNull, exc |-> c]

\* the exceptions client.post raises
PostExceptions == {"ConnectTimeout", "ReadTimeout", "ConnectError", "ReadError", "InvalidURL"}

\* what the HTTP layer can do with one POST
Outcomes(key) ==
    {Response(200, b) : b \in Bodies(key)}
    \cup {Response(st, b) : st \in {201, 301, 404, 500}, b \in FewBodies(key)}
    \cup {Raised(c) : c \in PostExceptions}

\* the result keys of the tools, and <<>> for a task that has sent nothing
Keys == {<<>>} \cup {ResultKey(MethodOf(tool), tool.object) : tool \in Tools}
OutcomesOf == [key \in Keys |-> Outcomes(key)]

\* the tools and outcomes of the interleaved specification
ConcTools == {[object |-> <<"people">>, op |-> "get"], [object |-> <<"notes">>, op |-> "delete"]}
ConcOutcomes(key) ==
    { Response(200, Body(<<>>, <<JMap(key :> JMap(<<"edges">> :> JList(<<Edge("r1")>>)))>>)),
      Response(500, RawText), Raised("ReadTimeout") }

\* one entry of `filters`: field, operator and value, each given or left out
Condition(field, operator, value) ==
    JMap((IF field = <<>> THEN <<>> ELSE (<<"field">> :> field[1]))
         @@ (IF operator = <<>> THEN <<>> ELSE (<<"operator">> :> operator[1]))
         @@ (IF value = <<>> THEN <<>> ELSE (<<"value">> :> value[1])))

\* the operators search_records_complex lists, one it does not, and none given
OperatorArgs ==
    {<<>>} \cup {<<JStr(op)>> : op \in DOMAIN operator_map \cup {<<"startsWith">>}}

FieldArgs == {<<>>, <<JStr(<<>>)>>, <<JStr(<<"name">>)>>, <<JStr(<<"age">>)>>}

ValueArgs ==
    {<<>>, <<JNull>>, <<JStr(<<"Acme">>)>>, <<JInt(30)>>, <<JBool("True")>>,
     <<JList(<<JInt(1), JInt(2)>>)>>}

Conditions == {Condition(f, o, v) : f \in FieldArgs, o \in OperatorArgs, v \in ValueArgs}

\* the entries of the lists of two and more: conditions that are kept, one with
\* an empty field, one with no field, and an entry that is no mapping
FewConditions ==
    { Condition(<<JStr(<<"name">>)>>, <<JStr(<<"contains">>)>>, <<JStr(<<"Acme">>)>>),
      Condition(<<JStr(<<"age">>)>>, <<JStr(<<"gte">>)>>, <<JInt(30)>>),
      Condition(<<JStr(<<"email">>)>>, <<JStr(<<"isNull">>)>>, <<>>),
      Condition(<<JStr(<<>>)>>, <<JStr(<<"eq">>)>>, <<JStr(<<"Acme">>)>>),
      Condition(<<>>, <<JStr(<<"eq">>)>>, <<JInt(30)>>),
      JStr(<<"name">>) }

FilterLists ==
    {JList(<<>>)} \cup {JList(<<c>>) : c \in Conditions \cup FewConditions}
    \cup UNION {{JList(l) : l \in [1..k -> FewConditions]} : k \in 2..MaxFilters}

\* order_direction as a complex search tool hands it on: the caller's str as
\* given, "AscNullsFirst" when the caller gives none
ToolDirection(order_direction) ==
    IF order_direction = <<>> THEN JStr(<<"AscNullsFirst">>) ELSE order_direction[1]

\* the order field and direction of a list query
OrderArgs ==
    { <<JNull, ToolDirection(<<>>)>>, <<JStr(<<>>), ToolDirection(<<>>)>>,
      <<JStr(<<"createdAt">>), ToolDirection(<<>>)>>,
      <<JStr(<<"createdAt">>), ToolDirection(<<JStr(<<"DescNullsFirst">>)>>)>>,
      <<JStr(<<"createdAt">>), ToolDirection(<<JStr(<<"desc">>)>>)>> }

LimitArgs == {JInt(20), JInt(5)}
\* the id and data arguments of the record methods
RecordIds == {<<"r1">>, <<"r2">>}
DataArgs == {EmptyDict, JMap(<<"name">> :> JStr(<<"Acme">>)), JMap(<<"amount">> :> JInt(30))}
AfterArgs == {JNull, JStr(<<>>), JStr(<<"c1">>)}
FieldLists == {<<>>, <<<<<<"name">>, <<"email">>>>>>}

\* the filter_condition arguments of get_records
FilterArgs ==
    { JNull, EmptyDict,
      JMap(<<"name">> :> JMap(<<"ilike">> :> JStr(<<"%", "Acme", "%">>))),
      JMap(<<"and">> :> JList(<<JMap(<<"age">> :> JMap(<<"gte">> :> JInt(30))),
                               JMap(<<"email">> :> JMap(<<"is">> :> JStr(<<"NULL">>)))>>)) }

\* object names given letter by letter
Letters == {"a", "s", "A", "S"}
LetterNames == SeqsUpTo(Letters, MaxNameLen)

\* the names given to _get_mutation_name: the listed ones, their tokens, others
NameArgs == Objects \cup {name_map[o] : o \in Objects} \cup LetterNames

\* ------------------------------------------------------------ state machine

VARIABLES
    config,        \* the Config the server was initialized with
    _clients,      \* TwentyClientManager._clients: workspace name -> client
    constructed,   \* the workspace name of every client constructed, in order
    handed,        \* the <<name, client id>> pairs get_client has returned
    tasks,         \* the tool invocations: where each is and what it holds
    last           \* the latest query or mutation name built: by whom, from what

vars == <<config, _clients, constructed, handed, tasks, last>>

NoRequest ==
    [endpoint |-> <<>>, headers |-> [Authorization |-> <<>>, ContentType |-> <<>>],
     timeout |-> 0, field |-> <<>>, filter |-> <<>>]
NoOutcome == [kind |-> "none", status |-> 0, body |-> JNull, exc |-> "none"]
NoReturn == [kind |-> "none", error |-> <<"none">>, value |-> JNull]

Idle ==
    [pc |-> "idle", tool |-> [object |-> <<>>, op |-> "none"], ws |-> <<>>,
     method |-> "none", key |-> <<>>, client |-> 0, request |-> NoRequest,
     posts |-> 0, outcome |-> NoOutcome, exec |-> Returns(JNull),
     res |-> Returns(JNull), ret |-> NoReturn]

\* what a method built before its await: the exception it raised instead, the
\* filter it handed to get_records, the text
Built(exc, filter_condition, query) ==
    [exc |-> exc, filter_condition |-> filter_condition, query |-> query]

\* nothing built yet; turn tells one call from the next
NoCall ==
    [fn |-> "none", turn |-> 0, again |-> 0, self |-> 0, args |-> <<>>,
     out |-> Built("none", JNull, <<>>)]

Init ==
    /\ config \in Configs
    /\ _clients = <<>>
    /\ constructed = <<>>
    /\ handed = {}
    /\ tasks = [t \in 1..NTasks |-> Idle]
    /\ last = NoCall

\* the one POST of execute_query as the HTTP layer sees it
Request(client, field, filter) ==
    [endpoint |-> client.graphql_endpoint, headers |-> get_headers(client),
     timeout |-> client.timeout, field |-> field, filter |-> filter]

\* A tool is invoked and runs to its first suspension, the POST of its client
\* method, or to its return when get_client or the call of the method fails.
Invoke(t, tool, ws, search_query) ==
    /\ tasks[t].pc = "idle"
    /\ LET g == get_client(config, _clients, Len(constructed), ws)
           started == [Idle EXCEPT !.tool = tool, !.ws = ws]
           failed == [Escapes(g.exc) EXCEPT !.message = g.message]
       IN IF g.exc # "none"
          THEN /\ tasks' = [tasks EXCEPT ![t] =
                      [started EXCEPT !.pc = "done", !.res = failed,
                                      !.ret = ToolReturn(tool, failed)]]
               /\ UNCHANGED <<_clients, constructed, handed>>
          ELSE /\ _clients' = g.clients
               /\ constructed' = constructed \o g.built
               /\ handed' = handed \cup {<<g.key[1], g.clients[g.key[1]].id>>}
               /\ LET client == g.clients[g.key[1]]
                      held == [started EXCEPT !.key = g.key, !.client = client.id]
                  IN IF ~Binds(tool)
                     THEN tasks' = [tasks EXCEPT ![t] =
                              [held EXCEPT !.pc = "done", !.res = Escapes("TypeError"),
                                           !.ret = ToolReturn(tool, Escapes("TypeError"))]]
                     ELSE tasks' = [tasks EXCEPT ![t] =
                              [held EXCEPT !.pc = "awaiting", !.method = MethodOf(tool),
                                           !.request = Request(client,
                                               ResultKey(MethodOf(tool), tool.object),
                                               SearchFilter(MethodOf(tool), search_query)),
                                           !.posts = post(held.posts)]]
    /\ UNCHANGED <<config, last>>

\* an invocation that goes on waiting after its request timed out
WaitsOnTimeout(outcome) ==
    IF outcome.exc \in {"ConnectTimeout", "ReadTimeout"} THEN "waiting" ELSE "done"

\* where an invocation stands once its POST was answered or failed: every
\* except clause of execute_query raises, none sends the request again
Resumes(outcome) == "done"

\* The HTTP layer answers the POST (or fails); execute_query, the client method
\* and the tool run to the tool's return.
Receive(t, outcome) ==
    /\ tasks[t].pc = "awaiting"
    /\ \E r \in {FinishOp(tasks[t].method, tasks[t].request.field, outcome)} :
       \E e \in {Execute(tasks[t].method, outcome)} :
       \E ret \in {ToolReturn(tasks[t].tool, r)} :
           tasks' = [tasks EXCEPT ![t] =
               [@ EXCEPT !.pc = Resumes(outcome), !.outcome = outcome,
                         !.exec = e, !.res = r, !.ret = ret]]
    /\ UNCHANGED <<config, _clients, constructed, handed, last>>

\* The protocol layer takes the mapping; the task can run another invocation.
Return(t) ==
    /\ tasks[t].pc = "done"
    /\ tasks' = [tasks EXCEPT ![t] = Idle]
    /\ UNCHANGED <<config, _clients, constructed, handed, last>>

\* one invocation at a time, every tool and every outcome
Next ==
    \/ \E tool \in Tools, ws \in WorkspaceArgs :
           \E q \in IF tool.op = "search_basic" THEN Queries ELSE {<<>>} :
               Invoke(1, tool, ws, q)
    \/ \E o \in OutcomesOf[tasks[1].request.field] : Receive(1, o)
    \/ Return(1)

Spec == Init /\ [][Next]_vars

\* the server started with two workspaces
InitConc ==
    /\ config \in {c \in Configs : Len(c.workspaces.keys) = 2}
    /\ _clients = <<>>
    /\ constructed = <<>>
    /\ handed = {}
    /\ tasks = [t \in 1..NTasks |-> Idle]
    /\ last = NoCall

\* NTasks invocations interleaved at their suspension points
NextConc ==
    \/ \E t \in 1..NTasks, tool \in ConcTools, ws \in WorkspaceArgs : Invoke(t, tool, ws, <<>>)
    \/ \E t \in 1..NTasks : \E o \in ConcOutcomes(tasks[t].request.field) : Receive(t, o)
    \/ \E t \in 1..NTasks : Return(t)

SpecConc == InitConc /\ [][NextConc]_vars

\* the interleaved invocations when the HTTP layer answers every POST or lets
\* it time out (httpx.AsyncClient(timeout=self.timeout))
LiveTools == {[object |-> <<"people">>, op |-> "get"]}
LiveWorkspaces == {<<>>, <<<<"b">>>>, <<<<"zz">>>>}
LiveOutcomes(key) ==
    { Response(200, Body(<<>>, <<JMap(key :> JMap(<<"edges">> :> JList(<<Edge("r1")>>)))>>)),
      Raised("ReadTimeout") }

InitLive ==
    /\ config = _load_config(Env(<<Document(<<EntryA, EntryB>>)>>, <<>>, <<>>, <<>>))
    /\ _clients = <<>>
    /\ constructed = <<>>
    /\ handed = {}
    /\ tasks = [t \in 1..NTasks |-> Idle]
    /\ last = NoCall

NextLive ==
    \/ \E t \in 1..NTasks, tool \in LiveTools, ws \in LiveWorkspaces : Invoke(t, tool, ws, <<>>)
    \/ \E t \in 1..NTasks : \E o \in LiveOutcomes(tasks[t].request.field) : Receive(t, o)
    \/ \E t \in 1..NTasks : Return(t)

SpecLive ==
    /\ InitLive
    /\ [][NextLive]_vars
    /\ \A t \in 1..NTasks :
           WF_vars(\E o \in LiveOutcomes(tasks[t].request.field) : Receive(t, o))

\* ------------------------------------------- state machine: the query compiler

\* whether the build before this one was of the same method on the same
\* arguments: 0 when not, 1 when on the same client, 2 when on another
Again(fn, self, args) ==
    IF last.self # 0 /\ last.fn = fn /\ last.args = args
    THEN (IF last.self = self.id THEN 1 ELSE 2) ELSE 0

\* client.search_records_complex(...) runs to its await: the filter and the
\* query text it built are recorded
SearchComplex(self, object_name, filters, limit, order_by, order_direction) ==
    /\ LET r == search_records_complex(self, object_name, filters, limit, order_by,
                                       order_direction)
       IN last' = [fn |-> "search_records_complex", turn |-> 1 - last.turn,
                   again |-> Again("search_records_complex", self,
                                   <<object_name, filters, limit, order_by, order_direction>>),
                   self |-> self.id,
                   args |-> <<object_name, filters, limit, order_by, order_direction>>,
                   out |-> Built(r.exc, r.filter_condition, r.query)]
    /\ UNCHANGED <<config, _clients, constructed, handed, tasks>>

\* client.get_records(...), or get_records_with_fields when fields are given,
\* runs to its await
ListRecords(self, object_name, fields, limit, after, filter_condition, order_by, order_direction) ==
    /\ last' = [fn |-> IF fields = <<>> THEN "get_records" ELSE "get_records_with_fields",
                turn |-> 1 - last.turn,
                again |-> Again(IF fields = <<>> THEN "get_records"
                                ELSE "get_records_with_fields", self,
                                <<object_name, fields, limit, after, filter_condition,
                                  order_by, order_direction>>),
                self |-> self.id,
                args |-> <<object_name, fields, limit, after, filter_condition, order_by,
                           order_direction>>,
                out |-> Built("none", filter_condition,
                           IF fields = <<>>
                           THEN get_records(self, object_name, limit, after,
                                            filter_condition, order_by, order_direction)
                           ELSE get_records_with_fields(self, object_name, fields[1], limit,
                                            after, filter_condition, order_by,
                                            order_direction))]
    /\ UNCHANGED <<config, _clients, constructed, handed, tasks>>

\* client._get_mutation_name(object_name)
MutationName(self, object_name) ==
    /\ last' = [fn |-> "_get_mutation_name", turn |-> 1 - last.turn,
                again |-> Again("_get_mutation_name", self, <<object_name>>),
                self |-> self.id,
                args |-> <<object_name>>,
                out |-> Built("none", JNull, _get_mutation_name(object_name))]
    /\ UNCHANGED <<config, _clients, constructed, handed, tasks>>

\* the methods of one record
RecordOps == {"get_record", "create_record", "update_record", "delete_record"}

\* client.get_record, create_record, update_record or delete_record runs to its
\* await: the text it built is recorded
RecordOperation(self, fn, object_name, record_id, data) ==
    /\ last' = [fn |-> fn, turn |-> 1 - last.turn,
                again |-> Again(fn, self, <<object_name, record_id, data>>),
                self |-> self.id,
                args |-> <<object_name, record_id, data>>,
                out |-> Built("none", JNull,
                           CASE fn = "get_record" -> get_record(self, object_name, record_id)
                             [] fn = "create_record" -> create_record(self, object_name, data)
                             [] fn = "update_record" ->
                                    update_record(self, object_name, record_id, data)
                             [] fn = "delete_record" ->
                                    delete_record(self, object_name, record_id))]
    /\ UNCHANGED <<config, _clients, constructed, handed, tasks>>

\* a client constructed for workspace a
ClientA == NewClient(1, Workspace(<<"a">>, <<"h">>, <<"k1">>), DefaultTimeout)

\* a call that was made and has not run yet
Pending(fn, args) ==
    [fn |-> fn, turn |-> 0, again |-> 0, self |-> 0, args |-> args,
     out |-> Built("none", JNull, <<>>)]
IsPending(fn) == last.fn = fn /\ last.turn = 0 /\ last.self = 0

\* one call of a method that builds text, on any input
InitCompile ==
    /\ config \in {c \in Configs : Len(c.workspaces.keys) = 2}
    /\ _clients = <<>>
    /\ constructed = <<>>
    /\ handed = {}
    /\ tasks = [t \in 1..NTasks |-> Idle]
    /\ \/ \E filters \in FilterLists, order \in OrderArgs :
              last = Pending("search_records_complex",
                             <<<<"people">>, filters, JInt(20), order[1], order[2]>>)
       \/ \E fields \in FieldLists, limit \in LimitArgs, after \in AfterArgs,
             filter_condition \in FilterArgs, order \in OrderArgs :
              last = Pending("get_records",
                             <<<<"people">>, fields, limit, after, filter_condition,
                               order[1], order[2]>>)
       \/ \E object_name \in NameArgs : last = Pending("_get_mutation_name", <<object_name>>)
       \/ \E object_name \in Objects \ {<<"people">>} :
              last = Pending("get_records",
                             <<object_name, <<>>, JInt(20), JNull, JNull, JNull,
                               ToolDirection(<<>>)>>)
       \/ \E fn \in RecordOps, object_name \in NameArgs, record_id \in RecordIds :
              \E data \in IF fn \in {"create_record", "update_record"} THEN DataArgs
                          ELSE {JNull} :
                  last = Pending(fn, <<object_name,
                                       IF fn = "create_record" THEN <<>> ELSE record_id,
                                       data>>)

NextCompile ==
    \/ /\ IsPending("search_records_complex")
       /\ SearchComplex(ClientA, last.args[1], last.args[2], last.args[3], last.args[4],
                        last.args[5])
    \/ /\ IsPending("get_records")
       /\ ListRecords(ClientA, last.args[1], last.args[2], last.args[3], last.args[4],
                      last.args[5], last.args[6], last.args[7])
    \/ /\ IsPending("_get_mutation_name")
       /\ MutationName(ClientA, last.args[1])
    \/ /\ \E fn \in RecordOps : IsPending(fn)
       /\ RecordOperation(ClientA, last.fn, last.args[1], last.args[2], last.args[3])

SpecCompile == InitCompile /\ [][NextCompile]_vars

\* the inputs of the builds that run between the invocations
FewFilterLists ==
    { JList(<<>>),
      JList(<<Condition(<<JStr(<<"name">>)>>, <<JStr(<<"contains">>)>>, <<JStr(<<"Acme">>)>>),
              Condition(<<JStr(<<"age">>)>>, <<JStr(<<"gte">>)>>, <<JInt(30)>>)>>) }

\* the clients of the cache
Cached == {_clients[k] : k \in DOMAIN _clients}

\* invocations one at a time, and between their steps builds on cached clients
NextQuery ==
    \/ \E tool \in ConcTools, ws \in WorkspaceArgs : Invoke(1, tool, ws, <<>>)
    \/ \E o \in ConcOutcomes(tasks[1].request.field) : Receive(1, o)
    \/ Return(1)
    \/ \E self \in Cached, filters \in FewFilterLists :
           SearchComplex(self, <<"people">>, filters, JInt(20), JNull, JStr(<<"AscNullsFirst">>))
    \/ \E self \in Cached, after \in {JNull, JStr(<<"c1">>)},
          filter_condition \in {JNull, JMap(<<"age">> :> JMap(<<"gte">> :> JInt(30)))} :
           ListRecords(self, <<"people">>, <<>>, JInt(20), after, filter_condition,
                       JStr(<<"createdAt">>), JStr(<<"DescNullsFirst">>))

SpecQuery == InitConc /\ [][NextQuery]_vars

\* ------------------------------------------------------------------ claims

TaskIds == 1..NTasks
\* the POST of invocation t was answered and its tool has returned
Answered(t) == tasks[t].pc = "done" /\ tasks[t].outcome.kind # "none"
\* the HTTP layer answered invocation t with a 2xx response whose body is a JSON object
OkObject(t) ==
    /\ Answered(t)
    /\ tasks[t].outcome.kind = "response"
    /\ tasks[t].outcome.status \in 200..299
    /\ Tag(tasks[t].outcome.body) = "map"
BodyOf(t) == tasks[t].outcome.body[2]
IsGraphQLError(r) ==
    r.exc = "TwentyAPIError" /\ r.message[1] = "GraphQL errors: " /\ r.status_code = <<>>

\* C1: a 2xx response whose JSON body has a non-empty `errors` array makes
\* execute_query / execute_mutation fail with the GraphQL error and return no
\* data, with or without `data` in the body.
C1_ErrorsTakePrecedence ==
    \A t \in TaskIds :
        (/\ OkObject(t)
         /\ <<"errors">> \in DOMAIN BodyOf(t)
         /\ Tag(BodyOf(t)[<<"errors">>]) = "list"
         /\ Len(BodyOf(t)[<<"errors">>][2]) > 0)
        => IsGraphQLError(tasks[t].exec)

\* C2: on a non-2xx status s execute_query fails with status_code s and a
\* message that carries the raw body, whatever the body holds.
C2_HttpStatusError ==
    \A t \in TaskIds :
        (/\ Answered(t)
         /\ tasks[t].outcome.kind = "response"
         /\ tasks[t].outcome.status \notin 200..299)
        => /\ tasks[t].exec.exc = "TwentyAPIError"
           /\ tasks[t].exec.status_code = <<tasks[t].outcome.status>>
           /\ tasks[t].exec.message = <<"HTTP ", tasks[t].outcome.status, tasks[t].outcome.body>>

C2_Witness ==
    \E t \in TaskIds :
        /\ Answered(t)
        /\ tasks[t].outcome.status = 404
        /\ tasks[t].outcome.body # RawText
        /\ <<"errors">> \in DOMAIN BodyOf(t)
        /\ tasks[t].exec.status_code = <<404>>

TimeoutClasses == {"ConnectTimeout", "ReadTimeout"}
TransportClasses == {"ConnectError", "ReadError"}

\* C3: a timeout fails with the timeout error and no status code, any other
\* transport failure with the transport error and no status code, and only an
\* HTTP status failure carries a status code: the three kinds are exclusive.
C3_FailureKindsExclusive ==
    \A t \in TaskIds :
        Answered(t) =>
            /\ (tasks[t].outcome.exc \in TimeoutClasses
                   => /\ tasks[t].exec.exc = "TwentyAPIError"
                      /\ tasks[t].exec.message = <<"Request timeout">>
                      /\ tasks[t].exec.status_code = <<>>)
            /\ (tasks[t].outcome.exc \in TransportClasses
                   => /\ tasks[t].exec.exc = "TwentyAPIError"
                      /\ tasks[t].exec.message = <<"Request failed: ", tasks[t].outcome.exc>>
                      /\ tasks[t].exec.status_code = <<>>)
            /\ (tasks[t].exec.message[1] = "HTTP "
                   <=> (tasks[t].outcome.kind = "response"
                        /\ tasks[t].outcome.status \notin 200..299))
            /\ (tasks[t].exec.message[1] = "Request timeout"
                   <=> tasks[t].outcome.exc \in TimeoutClasses)

C3_Witness ==
    \E t \in TaskIds :
        /\ Answered(t)
        /\ tasks[t].outcome.exc = "ReadTimeout"
        /\ tasks[t].exec.message = <<"Request timeout">>

\* C4: whatever the HTTP outcome and the body, execute_query / execute_mutation
\* ends by returning or by raising TwentyAPIError, never another exception.
C4_OnlyTwentyAPIError ==
    \A t \in TaskIds :
        Answered(t) => tasks[t].exec.exc \in {"none", "TwentyAPIError"}

\* C5: on a 2xx response whose JSON body has no `errors` or an empty `errors`
\* array, execute_query returns the body's `data`, or {} when `data` is absent.
C5_NoErrorsReturnsData ==
    \A t \in TaskIds :
        (/\ OkObject(t)
         /\ (<<"errors">> \in DOMAIN BodyOf(t) => BodyOf(t)[<<"errors">>] = EmptyList))
        => /\ tasks[t].exec.exc = "none"
           /\ tasks[t].exec.val =
                  IF <<"data">> \in DOMAIN BodyOf(t) THEN BodyOf(t)[<<"data">>] ELSE EmptyDict

Found(t) == tasks[t].exec.val[2][tasks[t].request.field]
NoEdges(t) ==
    \/ tasks[t].request.field \notin DOMAIN tasks[t].exec.val[2]
    \/ /\ Tag(Found(t)) = "map"
       /\ (<<"edges">> \in DOMAIN Found(t)[2] => Found(t)[2][<<"edges">>] = EmptyList)
FirstNode(t) == Found(t)[2][<<"edges">>][2][1][2][<<"node">>]
HasFirstNode(t) ==
    /\ tasks[t].request.field \in DOMAIN tasks[t].exec.val[2]
    /\ Tag(Found(t)) = "map"
    /\ <<"edges">> \in DOMAIN Found(t)[2]
    /\ Tag(Found(t)[2][<<"edges">>]) = "list"
    /\ Len(Found(t)[2][<<"edges">>][2]) > 0
    /\ Tag(Found(t)[2][<<"edges">>][2][1]) = "map"
    /\ <<"node">> \in DOMAIN Found(t)[2][<<"edges">>][2][1][2]

C8_ToolAlwaysReturnsMapping ==
    \A t \in TaskIds :
        tasks[t].pc = "done" =>
            /\ tasks[t].ret.kind \in {"success", "error"}
            /\ (tasks[t].ret.kind = "success"
                   <=> (tasks[t].method \in ClientOps /\ tasks[t].res.exc = "none"))
            /\ (tasks[t].ret.kind = "error"
                   => tasks[t].ret.error[1] \in {"Failed to ", "Unexpected error: "})
            /\ (tasks[t].res.exc = "TwentyAPIError"
                   => tasks[t].ret.error = <<"Failed to ", tasks[t].res.message>>)

C8_Witness ==
    \E t \in TaskIds :
        /\ Answered(t)
        /\ tasks[t].res.exc = "AttributeError"
        /\ tasks[t].ret.kind = "error"
        /\ tasks[t].ret.error[1] = "Unexpected error: "

Count(seq, x) == Cardinality({i \in 1..Len(seq) : seq[i] = x})

\* C9: after any sequence of get_client calls the cache holds exactly one client
\* for each workspace name requested: the first call constructed it and every
\* later call, a call with no name for the default workspace included, returned
\* that same instance.
C9_OneClientPerWorkspace ==
    /\ DOMAIN _clients = {p[1] : p \in handed}
    /\ \A p \in handed : _clients[p[1]].id = p[2]
    /\ \A n \in DOMAIN _clients : Count(constructed, n) = 1
    /\ Len(constructed) = Cardinality(DOMAIN _clients)
    /\ \A t \in TaskIds :
           tasks[t].key # <<>> =>
               /\ tasks[t].key = (IF tasks[t].ws = <<>> THEN config.default_workspace
                                  ELSE tasks[t].ws)
               /\ tasks[t].client = _clients[tasks[t].key[1]].id

\* a call with no name got the default workspace's client, which an earlier call
\* constructed (another client was constructed after it)
C9_Witness ==
    \E t \in TaskIds :
        /\ tasks[t].pc = "awaiting"
        /\ tasks[t].ws = <<>>
        /\ tasks[t].client = 1
        /\ Len(constructed) = 2

\* C10: under every interleaving of invocations that suspend only at their POST,
\* at most one client is constructed per workspace name, invocations for the
\* same name hold the same instance, and a cached client is never replaced.
C10_CreateIfAbsent ==
    /\ [](\A n \in DOMAIN _clients : Count(constructed, n) = 1)
    /\ [](\A t, u \in TaskIds :
              (tasks[t].key # <<>> /\ tasks[t].key = tasks[u].key)
                  => tasks[t].client = tasks[u].client)
    /\ [][\A n \in DOMAIN _clients :
              n \in DOMAIN _clients' /\ _clients'[n] = _clients[n]]_vars

C10_Witness ==
    \E t, u \in TaskIds :
        /\ t # u
        /\ tasks[t].pc = "awaiting"
        /\ tasks[u].pc = "awaiting"
        /\ tasks[t].key = tasks[u].key
        /\ tasks[t].client = tasks[u].client
        /\ tasks[t].client # 0
        /\ Len(constructed) = 1

\* ------------------------------------------------- claims: the query compiler

\* the latest build has run and was one of search_records_complex
ComplexBuilt == last.fn = "search_records_complex" /\ last.self # 0
\* the entries of its `filters`, and whether each is a condition (a mapping)
Filters == last.args[2][2]
AllConditions == \A i \in 1..Len(Filters) : IsMap(Filters[i])
\* the entries whose field is given and not empty
HasField(f) == <<"field">> \in DOMAIN f[2] /\ PyTruthy(f[2][<<"field">>])
Kept == SelectSeq(Filters, HasField)
\* what one entry compiles to when it is the only one
AloneOf(f) == Combine(CompileCondition(f).val)
HasFilterClause == \E i \in 1..Len(last.out.query) : last.out.query[i] = "filter: "
\* the compiled filter is one condition, not a group
IsBare(filter_condition) ==
    IsMap(filter_condition) /\ DOMAIN filter_condition[2] \cap {<<"and">>, <<"or">>} = {}
\* the compiled filter is one `and` group of the entries of l, each as compiled alone
IsAndOf(filter_condition, l) ==
    /\ IsMap(filter_condition) /\ DOMAIN filter_condition[2] = {<<"and">>}
    /\ IsList(filter_condition[2][<<"and">>])
    /\ Len(filter_condition[2][<<"and">>][2]) = Len(l)
    /\ \A i \in 1..Len(l) : filter_condition[2][<<"and">>][2][i] = AloneOf(l[i])
\* the shape that goes with a list of conditions l
ShapeFor(l) ==
    /\ last.out.exc = "none"
    /\ Len(l) = 0 => ~HasFilterClause /\ last.out.filter_condition = JNull
    /\ Len(l) = 1 => /\ HasFilterClause
                     /\ IsBare(last.out.filter_condition)
                     /\ last.out.filter_condition = AloneOf(l[1])
                     /\ Count(last.out.query, "and") = 0
    /\ Len(l) >= 2 => /\ HasFilterClause
                      /\ IsAndOf(last.out.filter_condition, l)
                      /\ Count(last.out.query, "and") = 1

\* C11 as stated: the shape of the compiled filter follows the number of
\* conditions in the list given to search_records_complex: none gives no filter
\* argument, one a bare condition, two or more one `and` group of all of them in
\* input order.
C11_ShapeByListLength == ComplexBuilt /\ AllConditions => ShapeFor(Filters)

\* C11 amended: the shape follows the number of conditions whose field is given
\* and not empty, the others being dropped: none gives no filter argument, one a
\* bare condition, two or more one `and` group of all of them in input order.
C11_ShapeByKeptConditions == ComplexBuilt /\ AllConditions => ShapeFor(Kept)

\* a list of two conditions of which one is dropped, compiled to a bare filter
C11_Witness ==
    /\ ComplexBuilt /\ AllConditions
    /\ Len(Filters) = 2 /\ Len(Kept) = 1
    /\ HasFilterClause /\ IsBare(last.out.filter_condition)

\* text holds the tokens of sub, side by side
Contains(text, sub) ==
    \E j \in 0..(Len(text) - Len(sub)) : SubSeq(text, j + 1, j + Len(sub)) = sub
\* what the i-th kept condition became in the compiled filter
CompiledAt(i) ==
    IF Len(Kept) = 1 THEN last.out.filter_condition
    ELSE last.out.filter_condition[2][<<"and">>][2][i]
\* the field, the operator (when one is given) and the value (None when none is
\* given) of a condition
FieldOf(f) == f[2][<<"field">>][2]
OperatorGiven(f) == <<"operator">> \in DOMAIN f[2] /\ Tag(f[2][<<"operator">>]) = "str"
OperatorOf(f) == f[2][<<"operator">>][2]
ValueOf(f) == IF <<"value">> \in DOMAIN f[2] THEN f[2][<<"value">>] ELSE JNull
\* the keywords search_records_complex recognizes
SameKeyword == {<<"eq">>, <<"neq">>, <<"gt">>, <<"gte">>, <<"lt">>, <<"lte">>, <<"in">>}
Substring == {<<"like">>, <<"ilike">>, <<"contains">>}
NullTests == {<<"isNull">>, <<"isNotNull">>}
\* the text of { field: { keyword: value } } with the value as a filter literal
FilterText(field, keyword, value) ==
    <<"{ ">> \o field \o <<": ", "{ ">> \o keyword \o <<": ">> \o convert_value(value)
    \o <<" }", " }">>

\* C12: a condition whose operator is eq, neq, gt, gte, lt, lte or in, or a
\* string that search_records_complex does not recognize, compiles to
\* field -> {that same keyword: the value unchanged}, and the compilation does
\* not fail.
C12_OperatorKeptVerbatim ==
    ComplexBuilt /\ AllConditions =>
        \A i \in 1..Len(Kept) :
            LET f == Kept[i] IN
            OperatorGiven(f) /\ OperatorOf(f) \notin Substring \cup NullTests =>
                /\ last.out.exc = "none"
                /\ CompiledAt(i) = JMap(FieldOf(f) :> JMap(OperatorOf(f) :> ValueOf(f)))
                /\ Contains(last.out.query, FilterText(FieldOf(f), OperatorOf(f), ValueOf(f)))

\* age gte 30 was compiled to { age: { gte: 30 } }
C12_Witness ==
    /\ ComplexBuilt /\ AllConditions /\ Len(Kept) >= 1
    /\ \E i \in 1..Len(Kept) :
           /\ FieldOf(Kept[i]) = <<"age">> /\ OperatorGiven(Kept[i])
           /\ OperatorOf(Kept[i]) = <<"gte">> /\ ValueOf(Kept[i]) = JInt(30)
    /\ Contains(last.out.query,
                <<"filter: ", "{ ", "age", ": ", "{ ", "gte", ": ", "30", " }", " }">>)

\* C13: like, ilike and contains compile alike: for a field f and a value v each
\* of the three gives {f: {ilike: "%v%"}}, the value wrapped once in % on both
\* sides, so the operator given cannot be told from the compiled filter or from
\* the query text.
C13_SubstringOperatorsAlike ==
    ComplexBuilt /\ AllConditions =>
        \A i \in 1..Len(Kept) :
            LET f == Kept[i]
                wrapped == JStr(<<"%">> \o PyFormat(ValueOf(f)) \o <<"%">>)
            IN OperatorGiven(f) /\ OperatorOf(f) \in Substring =>
                /\ last.out.exc = "none"
                /\ CompiledAt(i) = JMap(FieldOf(f) :> JMap(<<"ilike">> :> wrapped))
                /\ Contains(last.out.query,
                            <<"{ ">> \o FieldOf(f) \o <<": ", "{ ", "ilike", ": ", "\"", "%">>
                            \o PyFormat(ValueOf(f)) \o <<"%", "\"", " }", " }">>)
                /\ \A j \in 1..Len(last.out.query) :
                       last.out.query[j] \notin {"like", "contains"}

\* name contains Acme was compiled to { name: { ilike: "%Acme%" } }
C13_Witness ==
    /\ ComplexBuilt /\ AllConditions /\ Len(Kept) = 1
    /\ FieldOf(Kept[1]) = <<"name">> /\ OperatorGiven(Kept[1])
    /\ OperatorOf(Kept[1]) = <<"contains">> /\ ValueOf(Kept[1]) = JStr(<<"Acme">>)
    /\ Contains(last.out.query,
                <<"filter: ", "{ ", "name", ": ", "{ ", "ilike", ": ", "\"", "%", "Acme", "%",
                  "\"", " }", " }">>)

\* C14: a condition with isNull compiles to {field: {is: "NULL"}} and one with
\* isNotNull to {field: {is: "NOT_NULL"}}, whether a value is given or not and
\* whatever it is: the value is nowhere in the output.
C14_NullTestsIgnoreValue ==
    ComplexBuilt /\ AllConditions =>
        \A i \in 1..Len(Kept) :
            LET f == Kept[i]
                word == IF OperatorOf(f) = <<"isNull">> THEN "NULL" ELSE "NOT_NULL"
            IN OperatorGiven(f) /\ OperatorOf(f) \in NullTests =>
                /\ last.out.exc = "none"
                /\ CompiledAt(i) = JMap(FieldOf(f) :> JMap(<<"is">> :> JStr(<<word>>)))
                /\ Contains(last.out.query,
                            <<"{ ">> \o FieldOf(f) \o <<": ", "{ ", "is", ": ", "\"", word, "\"",
                              " }", " }">>)
                /\ Len(Kept) = 1 =>
                       \A j \in 1..Len(last.out.query) :
                           last.out.query[j] \notin {"Acme", "30", "None", "true", "1", "2"}

\* isNotNull with the value Acme was compiled to { name: { is: "NOT_NULL" } }
C14_Witness ==
    /\ ComplexBuilt /\ AllConditions /\ Len(Kept) = 1
    /\ FieldOf(Kept[1]) = <<"name">> /\ OperatorGiven(Kept[1])
    /\ OperatorOf(Kept[1]) = <<"isNotNull">> /\ ValueOf(Kept[1]) = JStr(<<"Acme">>)
    /\ Contains(last.out.query,
                <<"filter: ", "{ ", "name", ": ", "{ ", "is", ": ", "\"", "NOT_NULL", "\"",
                  " }", " }">>)

\* the latest build has run and was one of _get_mutation_name; the name given
MutationBuilt == last.fn = "_get_mutation_name" /\ last.self # 0
NameGiven == last.args[1]

\* C15: _get_mutation_name is total and idempotent: it gives a token for every
\* name, the table's token for each listed name, and the token of a token is
\* that token, f(f(x)) = f(x).
C15_MutationNameIdempotent ==
    MutationBuilt =>
        /\ last.out.exc = "none"
        /\ NameGiven \in Objects => last.out.query = name_map[NameGiven]
        /\ _get_mutation_name(last.out.query) = last.out.query

\* a name with its one trailing "s" removed, and with its first letter upper-cased
StripOne(s) == IF s # <<>> /\ s[Len(s)] = "s" THEN SubSeq(s, 1, Len(s) - 1) ELSE s
UpperFirst(s) ==
    [i \in 1..Len(s) |-> IF i = 1 /\ s[i] \in DOMAIN UpperOf THEN UpperOf[s[i]] ELSE s[i]]

\* C16: for a name that is not in the table the token is the name with one
\* trailing "s" removed and its first letter upper-cased, every other character
\* unchanged; for a listed name it is the table's token.
C16_FallbackStripsOneS ==
    MutationBuilt =>
        IF NameGiven \in DOMAIN name_map THEN last.out.query = name_map[NameGiven]
        ELSE last.out.query = UpperFirst(StripOne(NameGiven))

\* the latest build has run and was one of get_records or get_records_with_fields
ListBuilt == last.fn \in {"get_records", "get_records_with_fields"} /\ last.self # 0
\* the places of a token in the query text
Places(tok) == {i \in 1..Len(last.out.query) : last.out.query[i] = tok}
\* the clause that opens with tok is in the text once, or is not in it
Once(tok) == Cardinality(Places(tok)) = 1
Never(tok) == Places(tok) = {}
PlaceOf(tok) == CHOOSE i \in Places(tok) : TRUE
\* where the argument clause opens and closes
ArgsOpen == PlaceOf("(")
ArgsClose == CHOOSE i \in 1..Len(last.out.query) :
                 SubSeq(last.out.query, i, i) = SubSeq(ListSelection(<<>>), 1, 1)
\* an input counts as present when it is given and not empty
Present(v) == PyTruthy(v)

\* C17: the argument clause of a list query holds `first: <limit>` always and
\* first, and `after`, `filter` and `orderBy` exactly when the cursor, the
\* filter condition and the order field are present, each once, in that order.
C17_ArgumentOrder ==
    ListBuilt =>
        LET limit == last.args[3]
            after == last.args[4]
            filter_condition == last.args[5]
            order_by == last.args[6]
            order_direction == last.args[7]
            opens == <<"first: ", "after: \"", "filter: ", "orderBy: { ">>
            present == <<TRUE, Present(after), Present(filter_condition), Present(order_by)>>
        IN /\ Once("(")
           /\ \A k \in 1..4 : IF present[k] THEN Once(opens[k]) ELSE Never(opens[k])
           /\ \A k \in 1..4 : present[k] =>
                  PlaceOf(opens[k]) > ArgsOpen /\ PlaceOf(opens[k]) < ArgsClose
           /\ SubSeq(last.out.query, ArgsOpen + 1, ArgsOpen + 2) = <<"first: ">> \o PyFormat(limit)
           /\ \A j, k \in 1..4 : j < k /\ present[j] /\ present[k] =>
                  PlaceOf(opens[j]) < PlaceOf(opens[k])
           /\ Present(after) => Contains(last.out.query, <<", ", "after: \"">> \o after[2] \o <<"\"">>)
           /\ Present(order_by) =>
                  Contains(last.out.query,
                           <<", ", "orderBy: { ">> \o order_by[2] \o <<": ">> \o order_direction[2]
                           \o <<" }">> \o SubSeq(ListSelection(<<>>), 1, 1))

\* limit 20, cursor c1, no filter and createdAt DescNullsFirst gave first,
\* after, orderBy
C17_Witness ==
    /\ ListBuilt
    /\ last.args[3] = JInt(20) /\ last.args[4] = JStr(<<"c1">>)
    /\ last.args[5] = JNull /\ last.args[6] = JStr(<<"createdAt">>)
    /\ Contains(last.out.query,
                <<"(", "first: ", "20", ", ", "after: \"", "c1", "\"", ", ", "orderBy: { ",
                  "createdAt", ": ", "DescNullsFirst", " }">>)

\* the step is a build of query text
BuildStep == last'.turn # last.turn /\ last'.fn \in {"get_records", "search_records_complex"}

Registered == {config.workspaces.val[k] : k \in DOMAIN config.workspaces.val}

\* C19: every workspace of the registry, loaded in either mode, has a name, a
\* base_url and an api_key that are not empty, and its base_url does not end
\* with a slash.
C19_RegistryHoldsValidWorkspaces ==
    \A w \in Registered :
        /\ w.name # <<>>
        /\ w.base_url # <<>> /\ w.base_url[Len(w.base_url)] # "/"
        /\ w.api_key # <<>>

\* ------------------------------------------------ claims: the error message

\* the `errors` array of the body invocation t was answered with
ErrorsOf(t) == BodyOf(t)[<<"errors">>][2]
\* the part of the message that goes with one entry: its `message` when it has
\* one, else its string form
PartOf(e) ==
    IF IsMap(e) /\ <<"message">> \in DOMAIN e[2] THEN e[2][<<"message">>] ELSE PyStr(e)
\* the parts of the message, and the places of the message at which they stand
PartsIn(message) == {i \in 1..Len(message[2]) : i % 2 = 1}

\* C20: for a 2xx response whose body has an `errors` array, execute_query
\* raises the GraphQL error, and its message holds one part for every entry, in
\* array order with "; " between them: the entry's `message` when it has one,
\* else the entry's string form.  Building it fails for no entry.
C20_MessagePerEntry ==
    \A t \in TaskIds :
        (/\ OkObject(t)
         /\ <<"errors">> \in DOMAIN BodyOf(t)
         /\ Tag(BodyOf(t)[<<"errors">>]) = "list")
        => /\ IsGraphQLError(tasks[t].exec)
           /\ Cardinality(PartsIn(tasks[t].exec.message)) = Len(ErrorsOf(t))
           /\ \A i \in 1..Len(ErrorsOf(t)) :
                  tasks[t].exec.message[2][2 * i - 1] = PartOf(ErrorsOf(t)[i])
           /\ \A i \in 1..(Len(ErrorsOf(t)) - 1) :
                  tasks[t].exec.message[2][2 * i] = JStr(<<"; ">>)

\* ------------------------------------------------------- claims: the tools

\* C21: every object tool that was invoked for a configured workspace and has
\* returned issued one POST through execute_query before it returned, and what
\* it returned is what that request produced.
C21_EveryToolPosts ==
    \A t \in TaskIds :
        tasks[t].pc = "done" /\ tasks[t].key # <<>> =>
            /\ tasks[t].posts = 1
            /\ tasks[t].outcome.kind # "none"
            /\ tasks[t].res = FinishOp(tasks[t].method, tasks[t].request.field, tasks[t].outcome)

\* the four directions Twenty CRM orders by
Directions == {"AscNullsFirst", "AscNullsLast", "DescNullsFirst", "DescNullsLast"}

\* C22: a query built by a complex search that carries an orderBy block names
\* one of the four enumerated directions in it, the direction the caller gave or
\* the tool's default.
C22_DirectionEnumerated ==
    ComplexBuilt /\ last.out.exc = "none" =>
        \A p \in Places("orderBy: { ") :
            /\ last.out.query[p + 2] = ": "
            /\ last.out.query[p + 3] \in Directions

\* the entries of the JSON document of environment e, when it is a document
\* with a list of entries
HasEntries(e) ==
    /\ e.TWENTY_WORKSPACES # <<>>
    /\ IsMap(e.TWENTY_WORKSPACES[1])
    /\ <<"workspaces">> \in DOMAIN e.TWENTY_WORKSPACES[1][2]
    /\ IsList(e.TWENTY_WORKSPACES[1][2][<<"workspaces">>])
EntriesOf(e) == e.TWENTY_WORKSPACES[1][2][<<"workspaces">>][2]
\* the workspace an entry describes, and whether the entry is valid
Described(x) ==
    Workspace(IF <<"name">> \in DOMAIN x[2] THEN StrOf(x[2][<<"name">>]) ELSE <<"default">>,
              IF <<"base_url">> \in DOMAIN x[2] THEN rstrip(StrOf(x[2][<<"base_url">>]), "/")
              ELSE <<>>,
              IF <<"api_key">> \in DOMAIN x[2] THEN StrOf(x[2][<<"api_key">>]) ELSE <<>>)
ValidEntry(x) == IsMap(x) /\ is_valid(Described(x))
ValidPlaces(e) == {i \in 1..Len(EntriesOf(e)) : ValidEntry(EntriesOf(e)[i])}
FirstValid(e) == EntriesOf(e)[CHOOSE i \in ValidPlaces(e) : \A j \in ValidPlaces(e) : i <= j]

\* C23: when the workspaces were loaded from a JSON document that has a valid
\* entry, get_workspace with no name returns the name, base_url and api_key of
\* the first valid entry of the list.
C23_DefaultIsFirstValidEntry ==
    \A e \in Envs :
        config = _load_config(e) /\ HasEntries(e) /\ ValidPlaces(e) # {} =>
            /\ get_workspace(config, <<>>).exc = "none"
            /\ get_workspace(config, <<>>).workspace = Described(FirstValid(e))

\* C27: whenever Config was constructed, default_workspace names a workspace of
\* the registry, and get_workspace and get_client with no name succeed.
C27_DefaultWorkspacePresent ==
    /\ config.default_workspace # <<>>
    /\ config.default_workspace[1] \in DOMAIN config.workspaces.val
    /\ get_workspace(config, <<>>).exc = "none"
    /\ \A t \in TaskIds : tasks[t].pc # "idle" /\ tasks[t].ws = <<>> => tasks[t].key # <<>>

\* C28: whenever execute_query has returned normally, the value it returned is
\* a mapping.
C28_ReturnsMapping ==
    \A t \in TaskIds :
        Answered(t) /\ tasks[t].exec.exc = "none" => IsMap(tasks[t].exec.val)

\* search_records_complex on the conditions of `filters` that have a field
OnKept ==
    search_records_complex(last.self, last.args[1], JList(Kept), last.args[3],
                           last.args[4], last.args[5])

\* C25: a condition whose field is empty or missing is dropped before anything
\* is compiled: what search_records_complex builds from a list of conditions is
\* what it builds from the conditions that have a field, and it does not fail
\* when no condition has one.
C25_FieldlessConditionsDropped ==
    ComplexBuilt /\ AllConditions =>
        /\ last.out = OnKept
        /\ Kept = <<>> => last.out.exc = "none" /\ ~HasFilterClause
C25_Witness ==
    /\ ComplexBuilt /\ AllConditions
    /\ Len(Filters) = 2 /\ Len(Kept) = 1
    /\ ~HasField(Filters[1])
    /\ last.out.exc = "none"
    /\ IsBare(last.out.filter_condition)

\* ------------------------------------------------- claims: the client manager
\* the registry entry of the workspace a task got its client for
WorkspaceOf(t) == config.workspaces.val[tasks[t].key[1]]
Sent(t) == tasks[t].key # <<>> /\ tasks[t].posts > 0

\* C26: every request sent through the client got for workspace N goes to N's
\* base_url + /graphql with `Bearer ` + N's api_key, never with another
\* workspace's endpoint or key, and no step changes the endpoint, key or
\* timeout of a cached client.
C26_RequestsStayInWorkspace ==
    /\ [](\A t \in TaskIds :
              Sent(t) =>
                  /\ tasks[t].request.endpoint
                         = rstrip(WorkspaceOf(t).base_url, "/") \o <<"/graphql">>
                  /\ tasks[t].request.headers.Authorization
                         = <<"Bearer ">> \o WorkspaceOf(t).api_key
                  /\ \A n \in DOMAIN config.workspaces.val :
                         config.workspaces.val[n].api_key # WorkspaceOf(t).api_key
                             => tasks[t].request.headers.Authorization
                                    # <<"Bearer ">> \o config.workspaces.val[n].api_key)
    /\ [][\A n \in DOMAIN _clients :
              /\ _clients'[n].graphql_endpoint = _clients[n].graphql_endpoint
              /\ _clients'[n].api_key = _clients[n].api_key
              /\ _clients'[n].timeout = _clients[n].timeout]_vars

\* two invocations wait on requests of two workspaces at once
C26_Witness ==
    \E t, u \in TaskIds :
        /\ tasks[t].pc = "awaiting" /\ tasks[u].pc = "awaiting"
        /\ Sent(t) /\ Sent(u)
        /\ tasks[t].key # tasks[u].key
        /\ tasks[t].request.endpoint # tasks[u].request.endpoint
        /\ tasks[t].request.headers.Authorization # tasks[u].request.headers.Authorization

\* the workspace argument names no workspace of the registry
Unknown(ws) == ws # <<>> /\ ws[1] \notin DOMAIN config.workspaces.val

\* C29: a tool invoked with a workspace name that is not in the registry gets
\* no client and sends no request; it reports the error mapping whose text
\* names the workspace; the call constructs no client and leaves the cache as
\* it was, so that later calls find the clients of the configured names.
C29_UnknownWorkspaceChangesNothing ==
    /\ [](\A t \in TaskIds :
              tasks[t].pc # "idle" /\ Unknown(tasks[t].ws) =>
                  /\ tasks[t].pc = "done"
                  /\ tasks[t].key = <<>> /\ tasks[t].client = 0
                  /\ tasks[t].posts = 0
                  /\ tasks[t].res.exc = "ValueError"
                  /\ tasks[t].ret.kind = "error"
                  /\ tasks[t].ret.error[1] = "Unexpected error: "
                  /\ tasks[t].ret.error[2][1] = "Workspace '"
                  /\ tasks[t].ret.error[2][2] = tasks[t].ws[1])
    /\ [][\A t \in TaskIds :
              tasks[t].pc = "idle" /\ tasks'[t].pc # "idle" /\ Unknown(tasks'[t].ws) =>
                  /\ _clients' = _clients
                  /\ constructed' = constructed
                  /\ handed' = handed]_vars

\* the failed call came after a client was cached
C29_Witness ==
    \E t \in TaskIds :
        /\ tasks[t].pc = "done"
        /\ Unknown(tasks[t].ws)
        /\ tasks[t].ret.error[2][2] = <<"zz">>
        /\ DOMAIN _clients = {<<"a">>}
        /\ constructed = <<(<<"a">>)>>

\* ------------------------------------------------- claims: the operation text
OperationBuilt ==
    last.fn \in RecordOps \cup {"get_records", "get_records_with_fields"} /\ last.self # 0
Mutations == {"create_record", "update_record", "delete_record"}
\* the name of the field the text asks for: what stands before the arguments
FirstOpen == CHOOSE i \in Places("(") : \A j \in Places("(") : i <= j
FieldWritten == SubSeq(last.out.query, 2, FirstOpen - 1)
\* the prefix of a mutation's field
Verb == [create_record |-> "create", update_record |-> "update", delete_record |-> "delete"]

\* C24: the key a method reads its result under is the name of the field its
\* text asks for: the object name for a list and for get_record, and create,
\* update or delete followed by the mutation token for a mutation; an update
\* carries id and data, a delete only id.
C24_ResultKeyIsFieldWritten ==
    OperationBuilt =>
        /\ Places("(") # {}
        /\ FieldWritten = ResultKey(last.fn, last.args[1])
        /\ (last.fn \notin Mutations =>
                /\ last.out.query[1] = "query { "
                /\ FieldWritten = last.args[1])
        /\ (last.fn \in Mutations =>
                /\ last.out.query[1] = "mutation { "
                /\ FieldWritten = <<Verb[last.fn]>> \o _get_mutation_name(last.args[1]))
        /\ (last.fn = "update_record" => Once("id: ") /\ Once("data: "))
        /\ (last.fn = "delete_record" => Once("id: ") /\ Never("data: "))
C24_Witness ==
    /\ OperationBuilt
    /\ last.fn = "update_record"
    /\ last.args[1] = <<"companies">>
    /\ FieldWritten = <<"update", "Company">>
    /\ last.args[3] # EmptyDict

\* ------------------------------------------------------ claims: termination
\* C30: every tool invocation completes: one that was invoked and waits for its
\* POST returns once the HTTP layer has answered or timed out, whatever the
\* other invocations do.
C30_InvocationCompletes ==
    \A t \in TaskIds : (tasks[t].pc = "awaiting") ~> (tasks[t].pc = "done")

\* an invocation completed on a timeout while another was still waiting
C30_Witness ==
    \E t, u \in TaskIds :
        /\ tasks[t].pc = "done"
        /\ tasks[t].posts = 1
        /\ tasks[t].outcome.exc = "ReadTimeout"
        /\ tasks[t].ret.kind = "error"
        /\ tasks[u].pc = "awaiting"

====
